---- MODULE Spec2Model ----
(***************************************************************************)
(* dsm_logger (src/main.rs): a source thread (demp_thread or               *)
(* serial_thread) sends MeterData over an mpsc channel; the main thread    *)
(* runs run_app, which draws, polls the keyboard, receives one reading     *)
(* with a 3000 ms timeout and hands it to App::on_tick, which keeps the    *)
(* last AVG_SAMPLES readings newest-first and appends one line per         *)
(* reading to log.csv.                                                     *)
(*                                                                         *)
(* Environment: the terminal calls made while restoring the terminal       *)
(* (main.rs 176-182) succeed; the log is the stream of lines written       *)
(* through App.log (the BufWriter), not the bytes already on disk.         *)
(* Watt values stay far below 2^64, so u64 arithmetic does not wrap.       *)
(***************************************************************************)
EXTENDS Integers, Sequences, FiniteSets, TLC

VARIABLES
    args,        \* "demo": no port path given; "serial": a port path given
    tape,        \* serial source: which telegram stream the meter emits
    rng,         \* demo source: state of the random generator
    mpc,         \* main thread position
    spc,         \* source thread position
    data,        \* App.data: Vec<(String, u64, u64)>, newest first
    log,         \* lines written to log.csv (earlier runs' lines first)
    log0,        \* content of log.csv when the process started
    chan,        \* the mpsc channel: readings sent and not yet received
    pending,     \* source thread local: the MeterData built, about to be sent
    total,       \* demp_thread local: running total
    nread,       \* number of readings the source has produced
    sent,        \* history: every reading sent on the channel, in send order
    aggregated,  \* history: every reading on_tick has completed, in order
    res,         \* result of run_app ("running" while it has not returned)
    ev,          \* event seen by the key poll of the current iteration
    raw,         \* terminal in raw mode / alternate screen
    printed,     \* messages printed by the process, in order
    exit_code    \* process exit status ("running" while alive)

vars == <<args, tape, rng, mpc, spc, data, log, log0, chan, pending, total,
          nread, sent, aggregated, res, ev, raw, printed, exit_code>>

-----------------------------------------------------------------------------
(* Constants and bounds *)

AVG_SAMPLES == 20

\* Number of readings the source produces before the model stops it.
MaxReadings == 25

Min(a, b) == IF a < b THEN a ELSE b

-----------------------------------------------------------------------------
(* Input streams *)

Seeds == {0, 1234}
Tapes == {"ramp", "scen"}

\* rng.gen_range(0..2000): the generator is a deterministic function of its
\* state; the stream it yields is fixed by the seed drawn in Init.
RngNext(s) == (21 * s + 7) % 2000

\* Telegram k of the meter: power delivered in watts.
TapeWatt(t, k) ==
    IF t = "ramp" THEN (k - 1) * 10
    ELSE <<100, 300, 200>>[((k - 1) % 3) + 1]

\* Telegram k of the meter: the two cumulative registers.
TapeTotal(t, k) == <<1000 + 3 * k, 500 + k>>

\* Timestamp of reading k: day and second of the day. The first reading is
\* stamped 23:59:51 of day 0, so the run crosses midnight and the date part
\* of a timestamp matters.
TimeOf(k) == [day |-> (86390 + k) \div 86400, sod |-> (86390 + k) % 86400]

NoReading == [time |-> TimeOf(0), watt |-> 0, total |-> <<0, 0>>]

HEADER == [kind |-> "header",
           fields |-> <<"TIME", "NORMAAL [kW]", "DAL [kW]", "POWER [W]", "AVG [W]">>]

\* What log.csv may hold when the process starts: nothing, or an earlier run.
PrevLogs ==
    { <<>>,
      <<HEADER, [kind |-> "data", fields |-> <<<<0, 12, 0, 0>>, 7, 0, 7, 7>>]>> }

-----------------------------------------------------------------------------
(* App::on_tick, as pure operators *)

\* time.format("%Y-%m-%d %H:%M:%S"): date, hour, minute, second.
FormatFull(t) == <<t.day, t.sod \div 3600, (t.sod % 3600) \div 60, t.sod % 60>>

\* time.format("%H%M%S"): hour, minute, second; the date is dropped.
FormatLabel(t) == <<t.sod \div 3600, (t.sod % 3600) \div 60, t.sod % 60>>

Pop_Front(d) == Tail(d)
\* Vec::pop: remove the last element.
Pop(d) == SubSeq(d, 1, Len(d) - 1)

Evict_NoPop(d) == d
\* if self.data.len() == AVG_SAMPLES { self.data.pop().unwrap(); }
Evict(d) == IF Len(d) = AVG_SAMPLES THEN Pop(d) ELSE d

\* std::cmp::min(self.data.len(), AVG_SAMPLES)
AvgLen(d) == Min(Len(d), AVG_SAMPLES)

\* for (_s, data, _avg) in &self.data[0..avg_len] { avg += data; }
RECURSIVE SumData(_, _)
SumData(d, n) == IF n = 0 THEN 0 ELSE d[n][2] + SumData(d, n - 1)

AvgXsec_DivSamples(d, watt) == (watt + SumData(d, AvgLen(d))) \div AVG_SAMPLES
\* avg_xsec: (data.watt + sum) / (avg_len + 1)
AvgXsec(d, watt) == (watt + SumData(d, AvgLen(d))) \div (AvgLen(d) + 1)

LogStr_Swapped(r, avg) ==
    [kind |-> "data",
     fields |-> <<FormatFull(r.time), r.total[2], r.total[1], r.watt, avg>>]
\* "<time>;<total[0]>;<total[1]>;<watt>;<avg_xsec>;\n"
LogStr(r, avg) ==
    [kind |-> "data",
     fields |-> <<FormatFull(r.time), r.total[1], r.total[2], r.watt, avg>>]

Insert0_Push(d, e) == Append(d, e)
\* self.data.insert(0, e)
Insert0(d, e) == <<e>> \o d

on_tick_AvgBeforeEvict(d, r) ==
    LET avg == AvgXsec(d, r.watt)
    IN  [line |-> LogStr(r, avg),
         data |-> Insert0(Evict(d), <<FormatLabel(r.time), r.watt, avg>>)]
\* The whole of on_tick on window d and reading r: the line it logs and the
\* window it leaves.
on_tick(d, r) ==
    LET d1  == Evict(d)
        avg == AvgXsec(d1, r.watt)
    IN  [line |-> LogStr(r, avg),
         data |-> Insert0(d1, <<FormatLabel(r.time), r.watt, avg>>)]

-----------------------------------------------------------------------------
(* The channel *)

ChanSend_Front(c, m) == <<m>> \o c
\* tx.send(data)
ChanSend(c, m) == Append(c, m)

\* The receiver lives in App, which run_app owns: it is dropped when run_app
\* returns or the main thread unwinds.
RxAlive == mpc \in {"start", "spawn", "setup", "draw", "poll", "recv"}

\* The sender is dropped when the source thread returns or panics.
TxAlive == spc \notin {"done", "panicked"}

ProcessAlive == exit_code = "running"

-----------------------------------------------------------------------------
Init ==
    /\ args \in {"demo", "serial"}
    /\ tape \in (IF args = "serial" THEN Tapes ELSE {"none"})
    /\ rng \in (IF args = "demo" THEN Seeds ELSE {0})
    /\ log0 \in PrevLogs
    /\ log = log0
    /\ mpc = "start"
    /\ spc = "idle"
    /\ data = <<>>
    /\ chan = <<>>
    /\ pending = NoReading
    /\ total = 0
    /\ nread = 0
    /\ sent = <<>>
    /\ aggregated = <<>>
    /\ res = "running"
    /\ ev = "none"
    /\ raw = FALSE
    /\ printed = <<>>
    /\ exit_code = "running"

inputs == <<args, tape, log0>>
source_vars == <<rng, spc, pending, total, nread>>
app_vars == <<data, log, aggregated>>

-----------------------------------------------------------------------------
(* main, before run_app *)

OpenLog_HeaderIfNew ==
    /\ mpc = "start"
    /\ log' = IF log = <<>> THEN Append(log, HEADER) ELSE log
    /\ mpc' = "spawn"
    /\ UNCHANGED <<inputs, source_vars, data, chan, sent, aggregated, res, ev,
                   raw, printed, exit_code>>
\* open log.csv (append, create) and write the header
OpenLog ==
    /\ mpc = "start"
    /\ log' = Append(log, HEADER)
    /\ mpc' = "spawn"
    /\ UNCHANGED <<inputs, source_vars, data, chan, sent, aggregated, res, ev,
                   raw, printed, exit_code>>

\* OpenOptions::open or write_all fails: main returns the error
OpenLogErr ==
    /\ mpc = "start"
    /\ mpc' = "exited"
    /\ exit_code' = "1"
    /\ UNCHANGED <<inputs, source_vars, app_vars, chan, sent, res, ev, raw, printed>>

\* spawn serial_thread when a path was given, demp_thread otherwise
Spawn ==
    /\ mpc = "spawn"
    /\ spc' = IF args = "serial" THEN "read" ELSE "sleep"
    /\ mpc' = "setup"
    /\ UNCHANGED <<inputs, rng, pending, total, nread, app_vars, chan, sent, res,
                   ev, raw, printed, exit_code>>

\* serial::open, configure or set_timeout fails: main returns the error
SpawnErr ==
    /\ mpc = "spawn"
    /\ args = "serial"
    /\ mpc' = "exited"
    /\ exit_code' = "1"
    /\ UNCHANGED <<inputs, source_vars, app_vars, chan, sent, res, ev, raw, printed>>

\* enable_raw_mode, EnterAlternateScreen, Terminal::new
SetupTerminal ==
    /\ mpc = "setup"
    /\ raw' = TRUE
    /\ mpc' = "draw"
    /\ UNCHANGED <<inputs, source_vars, app_vars, chan, sent, res, ev, printed,
                   exit_code>>

\* one of the setup calls fails: main returns the error; raw mode stays on
\* when the failure comes after enable_raw_mode
SetupTerminalErr ==
    /\ mpc = "setup"
    /\ raw' \in BOOLEAN
    /\ mpc' = "exited"
    /\ exit_code' = "1"
    /\ UNCHANGED <<inputs, source_vars, app_vars, chan, sent, res, ev, printed>>

-----------------------------------------------------------------------------
(* run_app *)

Events == {"none", "q", "key", "other"}

IsQuit_Never(e) == FALSE
\* Event::Key(key) with key.code == KeyCode::Char('q')
IsQuit(e) == e = "q"

\* terminal.draw(|f| ui(f, &app))?
Draw ==
    /\ mpc = "draw"
    /\ mpc' = "poll"
    /\ ev' = "none"
    /\ UNCHANGED <<inputs, source_vars, app_vars, chan, sent, res, raw, printed,
                   exit_code>>

\* draw fails: the ? returns the error
DrawErr ==
    /\ mpc = "draw"
    /\ mpc' = "restore"
    /\ res' = "Err(draw)"
    /\ UNCHANGED <<inputs, source_vars, app_vars, chan, sent, ev, raw, printed,
                   exit_code>>

\* poll(100 ms) and read: e is what the poll observed ("none": no event)
Poll ==
    /\ mpc = "poll"
    /\ \E e \in Events :
        /\ ev' = e
        /\ IF IsQuit(e)
             THEN mpc' = "restore" /\ res' = "Ok"
             ELSE mpc' = "recv" /\ res' = res
    /\ UNCHANGED <<inputs, source_vars, app_vars, chan, sent, raw, printed,
                   exit_code>>

\* poll or read fails: the ? returns the error
PollErr ==
    /\ mpc = "poll"
    /\ mpc' = "restore"
    /\ res' = "Err(poll)"
    /\ UNCHANGED <<inputs, source_vars, app_vars, chan, sent, ev, raw, printed,
                   exit_code>>

RecvOk_SkipDraw ==
    /\ mpc = "recv"
    /\ chan # <<>>
    /\ LET r == Head(chan)
           t == on_tick(data, r)
       IN  /\ log' = Append(log, t.line)
           /\ data' = t.data
           /\ aggregated' = Append(aggregated, r)
    /\ chan' = Tail(chan)
    /\ mpc' = "poll"
    /\ UNCHANGED <<inputs, source_vars, sent, res, ev, raw, printed, exit_code>>
\* recv_timeout returns Ok(data): app.on_tick(data), the log write succeeds
RecvOk ==
    /\ mpc = "recv"
    /\ chan # <<>>
    /\ LET r == Head(chan)
           t == on_tick(data, r)
       IN  /\ log' = Append(log, t.line)
           /\ data' = t.data
           /\ aggregated' = Append(aggregated, r)
    /\ chan' = Tail(chan)
    /\ mpc' = "draw"
    /\ UNCHANGED <<inputs, source_vars, sent, res, ev, raw, printed, exit_code>>

RecvOkLogErr_InsertFirst ==
    /\ mpc = "recv"
    /\ chan # <<>>
    /\ data' = on_tick(data, Head(chan)).data
    /\ chan' = Tail(chan)
    /\ mpc' = "panicked"
    /\ exit_code' = "101"
    /\ UNCHANGED <<inputs, source_vars, log, aggregated, sent, res, ev, raw, printed>>
RecvOkLogErr_Swallow ==
    /\ mpc = "recv"
    /\ chan # <<>>
    /\ data' = on_tick(data, Head(chan)).data
    /\ chan' = Tail(chan)
    /\ mpc' = "draw"
    /\ UNCHANGED <<inputs, source_vars, log, aggregated, sent, res, ev, raw, printed,
                   exit_code>>
\* recv_timeout returns Ok(data), and write_all in on_tick fails: unwrap
\* panics on the main thread
RecvOkLogErr ==
    /\ mpc = "recv"
    /\ chan # <<>>
    /\ chan' = Tail(chan)
    /\ mpc' = "panicked"
    /\ exit_code' = "101"
    /\ UNCHANGED <<inputs, source_vars, app_vars, sent, res, ev, raw, printed>>

RecvTimeout_Retry ==
    /\ mpc = "recv"
    /\ chan = <<>>
    /\ TxAlive
    /\ mpc' = "draw"
    /\ UNCHANGED <<inputs, source_vars, app_vars, chan, sent, res, ev, raw,
                   printed, exit_code>>
\* recv_timeout returns Err(Timeout): 3000 ms passed with nothing to receive
RecvTimeout ==
    /\ mpc = "recv"
    /\ chan = <<>>
    /\ TxAlive
    /\ mpc' = "restore"
    /\ res' = "Err(Timeout)"
    /\ UNCHANGED <<inputs, source_vars, app_vars, chan, sent, ev, raw, printed,
                   exit_code>>

RecvDisconnected_Wait ==
    /\ mpc = "recv"
    /\ chan = <<>>
    /\ ~TxAlive
    /\ mpc' = "draw"
    /\ UNCHANGED <<inputs, source_vars, app_vars, chan, sent, res, ev, raw,
                   printed, exit_code>>
RecvDisconnected_Eager ==
    /\ mpc = "recv"
    /\ ~TxAlive
    /\ mpc' = "restore"
    /\ res' = "Err(Disconnected)"
    /\ UNCHANGED <<inputs, source_vars, app_vars, chan, sent, ev, raw, printed,
                   exit_code>>
\* recv_timeout returns Err(Disconnected): nothing to receive, sender dropped
RecvDisconnected ==
    /\ mpc = "recv"
    /\ chan = <<>>
    /\ ~TxAlive
    /\ mpc' = "restore"
    /\ res' = "Err(Disconnected)"
    /\ UNCHANGED <<inputs, source_vars, app_vars, chan, sent, ev, raw, printed,
                   exit_code>>

-----------------------------------------------------------------------------
(* main, after run_app *)

IsErr(r) == r \in {"Err(draw)", "Err(poll)", "Err(Timeout)", "Err(Disconnected)"}

Restore_Rerun ==
    /\ mpc = "restore"
    /\ printed' = IF IsErr(res) THEN Append(printed, res) ELSE printed
    /\ mpc' = "draw"
    /\ UNCHANGED <<inputs, source_vars, app_vars, chan, sent, res, ev, raw,
                   exit_code>>
\* restore the terminal, print the error if any, return Ok(())
Restore ==
    /\ mpc = "restore"
    /\ raw' = FALSE
    /\ printed' = IF IsErr(res) THEN Append(printed, res) ELSE printed
    /\ mpc' = "exited"
    /\ exit_code' = "0"
    /\ UNCHANGED <<inputs, source_vars, app_vars, chan, sent, res, ev>>

-----------------------------------------------------------------------------
(* demp_thread *)

\* std::thread::sleep(1 s)
DempSleep ==
    /\ ProcessAlive
    /\ spc = "sleep"
    /\ spc' = "gen"
    /\ UNCHANGED <<inputs, rng, pending, total, nread, mpc, app_vars, chan, sent,
                   res, ev, raw, printed, exit_code>>

\* draw watt, add it to total, build the MeterData
DempGen ==
    /\ ProcessAlive
    /\ spc = "gen"
    /\ nread < MaxReadings
    /\ rng' = RngNext(rng)
    /\ total' = total + rng'
    /\ nread' = nread + 1
    /\ pending' = [time |-> TimeOf(nread'), watt |-> rng', total |-> <<total', 0>>]
    /\ spc' = "send"
    /\ UNCHANGED <<inputs, mpc, app_vars, chan, sent, res, ev, raw, printed,
                   exit_code>>

-----------------------------------------------------------------------------
(* serial_thread *)

\* the reader yields the next telegram; it decodes; build the MeterData
SerialRead ==
    /\ ProcessAlive
    /\ spc = "read"
    /\ nread < MaxReadings
    /\ nread' = nread + 1
    /\ pending' = [time |-> TimeOf(nread'), watt |-> TapeWatt(tape, nread'),
                   total |-> TapeTotal(tape, nread')]
    /\ spc' = "send"
    /\ UNCHANGED <<inputs, rng, total, mpc, app_vars, chan, sent, res, ev, raw,
                   printed, exit_code>>

\* a byte read fails, or the telegram does not decode or lacks a field:
\* unwrap panics on the source thread
SerialPanic ==
    /\ ProcessAlive
    /\ spc = "read"
    /\ spc' = "panicked"
    /\ UNCHANGED <<inputs, rng, pending, total, nread, mpc, app_vars, chan, sent,
                   res, ev, raw, printed, exit_code>>

\* the byte stream ends: the for loop ends and the thread returns
SerialEnd ==
    /\ ProcessAlive
    /\ spc = "read"
    /\ spc' = "done"
    /\ UNCHANGED <<inputs, rng, pending, total, nread, mpc, app_vars, chan, sent,
                   res, ev, raw, printed, exit_code>>

-----------------------------------------------------------------------------
(* tx.send in either source thread *)

SendOk ==
    /\ ProcessAlive
    /\ spc = "send"
    /\ RxAlive
    /\ chan' = ChanSend(chan, pending)
    /\ sent' = Append(sent, pending)
    /\ spc' = IF args = "serial" THEN "read" ELSE "sleep"
    /\ UNCHANGED <<inputs, rng, pending, total, nread, mpc, app_vars, res, ev,
                   raw, printed, exit_code>>

SendErr_Continue ==
    /\ ProcessAlive
    /\ spc = "send"
    /\ ~RxAlive
    /\ spc' = IF args = "serial" THEN "read" ELSE "sleep"
    /\ UNCHANGED <<inputs, rng, pending, total, nread, mpc, app_vars, chan, sent,
                   res, ev, raw, printed, exit_code>>
\* the receiver is gone: println!("Serial error ..."), break
SendErr ==
    /\ ProcessAlive
    /\ spc = "send"
    /\ ~RxAlive
    /\ printed' = Append(printed, "Serial error")
    /\ spc' = "done"
    /\ UNCHANGED <<inputs, rng, pending, total, nread, mpc, app_vars, chan, sent,
                   res, ev, raw, exit_code>>

-----------------------------------------------------------------------------
Next ==
    \/ OpenLog \/ OpenLogErr \/ Spawn \/ SpawnErr
    \/ SetupTerminal \/ SetupTerminalErr
    \/ Draw \/ DrawErr \/ Poll \/ PollErr
    \/ RecvOk \/ RecvOkLogErr \/ RecvTimeout \/ RecvDisconnected
    \/ Restore
    \/ DempSleep \/ DempGen
    \/ SerialRead \/ SerialPanic \/ SerialEnd
    \/ SendOk \/ SendErr

Spec == Init /\ [][Next]_vars

\* The positions of the main thread inside run_app's loop.
LoopPcs == {"draw", "poll", "recv"}

\* One step of run_app's loop.
MainLoop ==
    \/ Draw \/ DrawErr \/ Poll \/ PollErr
    \/ RecvOk \/ RecvOkLogErr \/ RecvTimeout \/ RecvDisconnected

\* The main thread keeps running: draw returns, the poll returns within
\* 100 ms and recv_timeout within 3000 ms.
FairSpec == Spec /\ WF_vars(MainLoop)

-----------------------------------------------------------------------------
(* Definitions used by the properties *)

NAgg == Len(aggregated)

\* The lines this run has written, and its data lines among them.
RunLines == SubSeq(log, Len(log0) + 1, Len(log))
IsDataLine(l) == l.kind = "data"
DataLines == SelectSeq(RunLines, IsDataLine)

\* The rolling average logged for the k-th aggregated reading.
LoggedAvg(k) == DataLines[k].fields[5]

\* Sum of the watt of readings lo..hi of a sequence of readings.
RECURSIVE SumWatt(_, _, _)
SumWatt(rs, lo, hi) == IF hi < lo THEN 0 ELSE rs[hi].watt + SumWatt(rs, lo, hi - 1)

\* Sum of the instant watt of every entry of a window.
RECURSIVE WindowSum(_)
WindowSum(d) == IF d = <<>> THEN 0 ELSE Head(d)[2] + WindowSum(Tail(d))

IsPrefix(s, t) == Len(s) <= Len(t) /\ SubSeq(t, 1, Len(s)) = s

\* A step in which on_tick completed for one more reading.
TickStep == Len(aggregated') = Len(aggregated) + 1

-----------------------------------------------------------------------------
(* Properties *)

\* C1: after n completed on_tick calls the window holds n entries when
\* n <= AVG_SAMPLES and exactly AVG_SAMPLES when n > AVG_SAMPLES, so it never
\* exceeds AVG_SAMPLES; an on_tick on a full window drops the tail entry and
\* keeps the other 19 behind the new entry.
C1_WindowLength ==
    /\ [](Len(data) = Min(NAgg, AVG_SAMPLES) /\ Len(data) <= AVG_SAMPLES)
    /\ [][(TickStep /\ Len(data) = AVG_SAMPLES) =>
            /\ Len(data') = AVG_SAMPLES
            /\ SubSeq(data', 2, AVG_SAMPLES) = SubSeq(data, 1, AVG_SAMPLES - 1)]_vars

C1_Witness == NAgg > AVG_SAMPLES /\ Len(data) = AVG_SAMPLES

\* C2: the window holds the summaries of the last min(n, 20) aggregated
\* readings newest first: entry i is reading n-i+1 (its label, its watt and
\* the average logged for it); after 25 readings of the ramp (watt = index*10)
\* it holds indices 24 down to 5.
C2_NewestFirst ==
    /\ Len(data) = Min(NAgg, AVG_SAMPLES)
    /\ \A i \in 1..Len(data) :
         LET r == aggregated[NAgg - i + 1]
         IN  data[i] = <<FormatLabel(r.time), r.watt, LoggedAvg(NAgg - i + 1)>>
    /\ (tape = "ramp" /\ NAgg = 25) =>
         [i \in 1..AVG_SAMPLES |-> data[i][2]] = [i \in 1..AVG_SAMPLES |-> (25 - i) * 10]

C2_Witness == tape = "ramp" /\ NAgg = 25 /\ data[1][2] = 240 /\ data[20][2] = 50

\* C3: for the N-th aggregated reading with N <= 20, the average logged, and
\* stored in the window, is floor(sum of the first N watts / N); readings
\* 100, 300, 200 leave the window [(200,200), (300,200), (100,100)].
C3_AverageUpToCapacity ==
    /\ \A k \in 1..Min(NAgg, AVG_SAMPLES) :
         /\ LoggedAvg(k) = SumWatt(aggregated, 1, k) \div k
         /\ (NAgg - k + 1 <= Len(data)) =>
              data[NAgg - k + 1][3] = SumWatt(aggregated, 1, k) \div k
    /\ (tape = "scen" /\ NAgg = 3) =>
         [i \in 1..3 |-> <<data[i][2], data[i][3]>>]
            = <<(<<200, 200>>), (<<300, 200>>), (<<100, 100>>)>>

C3_Witness ==
    /\ tape = "scen" /\ NAgg = 3
    /\ data[1][3] = 200 /\ data[2][3] = 200 /\ data[3][3] = 100

\* C4 as stated: from the 21st reading on, each average is
\* (new watt + sum of the 20 entries in the window) div 21.
C4_Denominator21 ==
    \A k \in (AVG_SAMPLES + 1)..NAgg :
        LoggedAvg(k) = SumWatt(aggregated, k - AVG_SAMPLES, k) \div (AVG_SAMPLES + 1)

\* C4 amended: from the 21st reading on, each average is (new watt + sum of
\* the 19 entries left after the eviction) div 20, the mean of the last 20
\* readings: the denominator stabilizes at AVG_SAMPLES = 20.
C4_Denominator20 ==
    \A k \in (AVG_SAMPLES + 1)..NAgg :
        LoggedAvg(k) = SumWatt(aggregated, k - AVG_SAMPLES + 1, k) \div AVG_SAMPLES

C4_Witness ==
    /\ NAgg > AVG_SAMPLES + 1
    /\ LoggedAvg(NAgg) = SumWatt(aggregated, NAgg - AVG_SAMPLES + 1, NAgg) \div AVG_SAMPLES
    /\ LoggedAvg(NAgg) # SumWatt(aggregated, NAgg - AVG_SAMPLES, NAgg) \div (AVG_SAMPLES + 1)

\* C5: every on_tick stores and logs floor((reading.watt + sum of the watt of
\* the entries left in the window after the capacity eviction) / (number of
\* entries left + 1)); the entry evicted in the call is not in the sum.
C5_AverageOverRemaining ==
    [][TickStep =>
        LET r    == aggregated'[Len(aggregated')]
            left == IF Len(data) = AVG_SAMPLES
                      THEN SubSeq(data, 1, Len(data) - 1) ELSE data
            avg  == (r.watt + WindowSum(left)) \div (Len(left) + 1)
        IN  /\ data'[1][3] = avg
            /\ log'[Len(log')].fields[5] = avg]_vars

\* An on_tick on a full window has run, and the evicted entry would have
\* changed the average.
C5_Witness ==
    /\ NAgg > AVG_SAMPLES
    /\ data[1][3] # (SumWatt(aggregated, NAgg - AVG_SAMPLES, NAgg)) \div (AVG_SAMPLES + 1)
    /\ data[1][3] # (SumWatt(aggregated, NAgg - AVG_SAMPLES, NAgg)) \div AVG_SAMPLES

\* The rolling average of the k-th reading of rs: the mean of the last
\* min(k, AVG_SAMPLES) readings up to k.
RefAvg(rs, k) ==
    LET m == Min(k, AVG_SAMPLES) IN SumWatt(rs, k - m + 1, k) \div m

C7_AggregatedPrefixOfSent == IsPrefix(aggregated, sent)

C7_Witness == Len(chan) >= 2 /\ NAgg >= 2 /\ IsPrefix(aggregated, sent)

\* C8: when the receive step ends with the channel empty and the sender
\* alive (the 3000 ms wait elapsed), run_app returns Err(Timeout); after that
\* the loop does not run again, the result never becomes Ok, nothing more is
\* aggregated, and a source thread that stopped is never started again.
C8_TimeoutIsFatal ==
    [][/\ (mpc = "recv" /\ mpc' # "recv" /\ chan = <<>> /\ TxAlive) =>
            (mpc' = "restore" /\ res' = "Err(Timeout)")
       /\ (res = "Err(Timeout)") =>
            /\ res' = "Err(Timeout)"
            /\ mpc' \in {"restore", "exited"}
            /\ aggregated' = aggregated
       /\ (spc \in {"done", "panicked"}) => spc' = spc
       /\ (spc # "idle") => spc' # "idle"]_vars

C8_Witness == mpc = "exited" /\ res = "Err(Timeout)" /\ NAgg >= 1 /\ TxAlive

C10_ExitCode ==
    (mpc = "exited" /\ res # "running") =>
        /\ (res = "Ok") => exit_code = "0"
        /\ (res \in {"Err(Timeout)", "Err(Disconnected)"}) =>
             /\ exit_code # "0"
             /\ \E i \in 1..Len(printed) : printed[i] = res

\* C11: after the terminal was set up, the process ends only with the
\* terminal restored: once run_app has returned or the main thread has died,
\* an ended process has left raw mode and the alternate screen.
C11_TerminalRestored ==
    (exit_code # "running" /\ (res # "running" \/ mpc = "panicked")) => ~raw

SourceExited ==
    \/ spc = "panicked"
    \/ (spc = "done" /\ \A i \in 1..Len(printed) : printed[i] # "Serial error")

\* C13 as stated: when the loop ends after the source thread exited and
\* without the quit key, run_app returned the closed-channel or the timeout
\* error.
C13_OnlyClosedOrTimeout ==
    [][(SourceExited /\ mpc \in LoopPcs /\ mpc' \notin LoopPcs /\ ev' # "q") =>
          res' \in {"Err(Disconnected)", "Err(Timeout)"}]_vars

\* C13 amended: once the source thread has exited, the loop eventually stops;
\* without the quit key it stops with an error: the closed-channel or timeout
\* error, a draw or poll I/O error, or the panic of a failed log write; it
\* returns Ok only when the quit key was seen.
C13_SourceExitEndsLoop ==
    /\ [][(SourceExited /\ mpc \in LoopPcs /\ mpc' \notin LoopPcs /\ ev' # "q") =>
            \/ res' \in {"Err(Disconnected)", "Err(Timeout)", "Err(draw)", "Err(poll)"}
            \/ (mpc' = "panicked" /\ exit_code' = "101")]_vars
    /\ [](res = "Ok" => ev = "q")
    /\ (SourceExited /\ mpc \in LoopPcs) ~> (mpc \notin LoopPcs)

C13_Witness ==
    /\ mpc = "exited" /\ spc = "panicked" /\ ev # "q"
    /\ res = "Err(Disconnected)" /\ NAgg >= 1

\* C14 as stated: with the receiver gone, the source's send fails and the
\* thread ends without printing anything and without sending.
C14_SilentExit ==
    [][(spc = "send" /\ ~RxAlive /\ spc' # spc) =>
          (spc' = "done" /\ printed' = printed /\ sent' = sent)]_vars

\* C14 amended: with the receiver gone, the source's next send fails, the
\* thread prints "Serial error ..." and ends, and sends nothing more; the
\* synthetic source ends only by a failed send; no step of the main thread
\* after the spawn touches the source thread's state.
C14_SendFailureEndsSource ==
    [][/\ (spc = "send" /\ ~RxAlive /\ spc' # spc) =>
            /\ spc' = "done"
            /\ printed' = Append(printed, "Serial error")
            /\ sent' = sent /\ chan' = chan
       /\ (spc = "done") => (spc' = "done" /\ sent' = sent /\ nread' = nread)
       /\ (args = "demo" /\ TxAlive /\ ~TxAlive') => (spc = "send" /\ ~RxAlive)
       /\ (mpc' # mpc /\ mpc # "spawn") => UNCHANGED source_vars]_vars

C14_Witness ==
    /\ args = "demo" /\ spc = "done" /\ ~RxAlive /\ Len(sent) >= 1
    /\ Len(printed) >= 1 /\ printed[Len(printed)] = "Serial error"

\* C15: the window and the log (after the header written at startup) change
\* only in an on_tick step, taken from the receive step with one reading
\* taken off the channel; draw, poll and every source step leave them as they
\* are; each iteration is draw, then poll, then receive, so draw runs once at
\* the start of every iteration.
C15_OnlyOnTickMutates ==
    [][/\ (data' # data \/ (log' # log /\ mpc # "start")) =>
            /\ mpc = "recv" /\ mpc' = "draw"
            /\ TickStep
            /\ chan # <<>> /\ chan' = Tail(chan)
            /\ Len(log') = Len(log) + 1
       /\ (mpc \in {"draw", "poll"} \/ <<spc, pending, nread, sent>>' # <<spc, pending, nread, sent>>)
            => UNCHANGED <<data, log, aggregated>>
       /\ (mpc = "draw" /\ mpc' # mpc) => mpc' \in {"poll", "restore"}
       /\ (mpc' = "poll" /\ mpc' # mpc) => mpc = "draw"
       /\ (mpc' = "recv" /\ mpc' # mpc) => mpc = "poll"
       /\ (mpc' = "draw" /\ mpc' # mpc) => mpc \in {"setup", "recv"}]_vars

C15_Witness == mpc = "poll" /\ NAgg >= 2 /\ Len(data) = NAgg /\ Len(chan) >= 1

C17_AppendOnlyOneHeader ==
    /\ [][IsPrefix(log, log')]_vars
    /\ [](/\ IsPrefix(log0, log)
          /\ (mpc # "start" /\ ~(mpc = "exited" /\ spc = "idle")) => Len(RunLines) >= 1
          /\ (Len(RunLines) >= 1) =>
               /\ RunLines[1].kind = "header"
               /\ RunLines[1].fields = HEADER.fields
               /\ \A k \in 2..Len(RunLines) : RunLines[k].kind = "data")

C17_Witness ==
    /\ log0 # <<>> /\ log0[1].kind = "header"
    /\ NAgg >= 2 /\ Len(RunLines) = NAgg + 1 /\ RunLines[1].kind = "header"

\* C18: once run_app has returned, its result stays, the loop does not run
\* again, no reading is received or aggregated, and the window, the log and
\* the channel do not change, whatever the source thread does.
C18_TerminatedAbsorbing ==
    [][(res # "running") =>
          /\ res' = res
          /\ mpc' \in {"restore", "exited"}
          /\ UNCHANGED <<data, log, aggregated, chan, sent>>]_vars

C18_Witness ==
    /\ mpc = "exited" /\ res # "running" /\ chan # <<>>
    /\ spc = "done" /\ nread > Len(sent)

\* C19: run_app returns the closed-channel error only from an empty channel
\* with the sender dropped; while a reading is pending the receive step takes
\* the oldest one and hands it to on_tick, sender dropped or not; so when the
\* closed-channel error is returned every reading sent has been aggregated,
\* in order.
C19_ClosedOnlyWhenDrained ==
    /\ [][/\ (res' = "Err(Disconnected)" /\ res # res') => (chan = <<>> /\ ~TxAlive)
          /\ (mpc = "recv" /\ mpc' # mpc /\ chan # <<>>) =>
               /\ chan' = Tail(chan)
               /\ \/ (TickStep /\ aggregated'[Len(aggregated')] = Head(chan))
                  \/ mpc' = "panicked"]_vars
    /\ [](res = "Err(Disconnected)" => (chan = <<>> /\ aggregated = sent))

C19_Witness ==
    /\ res = "Err(Disconnected)" /\ SourceExited
    /\ NAgg >= 2 /\ aggregated = sent

====
